---- MODULE Spec2Model ----
(***************************************************************************)
(* Model of the Yandex reverse-image-search scraper.                       *)
(*                                                                         *)
(* Three source files hold three variants of class YandexImageScraper:     *)
(*   "cli"   yandex_image_scraper.py (yandex_image_scraper-v2.py has the   *)
(*           same pipeline, plus a GUI front end),                         *)
(*   "local" yandex_scraper_local.py (similarity scoring, no patience in   *)
(*           the scroll loop, no re-acquisition of handles).               *)
(* The variable variant selects the file a run executes.                   *)
(***************************************************************************)
EXTENDS Integers, Sequences, FiniteSets, TLC

VARIABLES
    variant,            \* which source file runs: "cli" or "local"
    pc,                 \* position of the worker inside scrape()
    driver,             \* self.driver: "none", "live" or "quit"
    quitCount,          \* number of driver.quit() calls made
    opAfterQuit,        \* TRUE once a driver operation follows driver.quit()
    escaped,            \* TRUE when an exception leaves scrape()
    max_scrolls,        \* parameter of step3_scroll_until_show_more
    scroll_i,           \* iterations of the scroll loop started so far
    last_height,        \* local of step3
    no_change_count,    \* local of step3
    probes,             \* history: what step3 read after each trigger, in order
    total,              \* len(thumbnails) after step4
    index,              \* ordinal being processed (loop variable i of scrape)
    attempted,          \* history: ordinals for which step5_to_10 was called
    failed,             \* history: ordinals whose call returned False
    windows,            \* driver.window_handles, as a set of window ids
    focus,              \* window the driver is switched to (NoFocus: closed)
    downloaded_urls,    \* self.downloaded_urls
    downloaded_count,   \* self.downloaded_count
    files,              \* names of the files present in download_folder
    records,            \* history: successful saves (url, filename, ordinal)
    calls,              \* history: save_image calls, with what each did
    lastWrite,          \* history: the last file write of this ordinal
    tier,               \* history: the step that stored this ordinal's image
    thumbnail_url,      \* locals of step5_to_10_process_thumbnail ...
    thumbnail_data,
    preview_url,
    preview_data,
    success,
    acq,                \* history: outcome of the re-acquisition of this ordinal
    low,                \* history: the candidates of least distance, when that
                        \* distance is within the threshold of the reference
    lastRet,            \* history: what the last step5_to_10 call returned
    reprocess,          \* TRUE where step5_to_10 is called twice for an ordinal
    took,               \* history: what the hi-fidelity step selected
    prev,               \* history: the first of the two calls, once over (there)
    fetches,            \* history: download_image_data calls (where studied alone)
    view,               \* history: the detail view of the ordinal, and its ESC
    tree,               \* the result grid, where it is held still
    start_btn,          \* GUI: state of the start button, "normal" or "disabled"
    status_label,       \* GUI: text of the status label
    workers,            \* GUI: the worker threads started so far, each at its step
    after_calls,        \* GUI: callbacks queued with root.after, oldest first
    candidate_urls,     \* local of the scoring: the candidates, in order (there)
    scores,             \* what fetching and hashing each candidate gave (there)
    best_match_url      \* local of the scoring: the candidate chosen (there)

vars == <<variant, pc, driver, quitCount, opAfterQuit, escaped, max_scrolls,
          scroll_i, last_height, no_change_count, probes, total, index,
          attempted, failed, windows, focus, downloaded_urls, downloaded_count,
          files, records, calls, lastWrite, tier, thumbnail_url, thumbnail_data, preview_url,
          preview_data, success, acq, low, lastRet, reprocess, took, prev,
          fetches, view, tree, start_btn, status_label, workers, after_calls,
          candidate_urls, scores, best_match_url>>

(***************************************************************************)
(* Bounds of the model.                                                    *)
(***************************************************************************)
\* max_scrolls is drawn from 0..MaxScrolls
MaxScrolls == 5
\* page heights are drawn from 0..MaxHeight
MaxHeight == 3
\* elements a selector matches during a run: 0..MaxElems
MaxElems == 2
\* windows open at once (a click opens none beyond that)
MaxWindows == 3
\* candidate URLs collected in a new window
MaxCands == 2
\* save_image calls in the store specification
MaxCalls == 3
\* ordinals used in the store specification
MaxIndex == 2
\* download_image_data calls where it is studied alone
MaxFetches == 2
\* elements one selector matches, where the grid is held still
MaxGrid == 6
\* calls of save_image, where the spelling of the URL is studied
MaxNameCalls == 2

(***************************************************************************)
(* Program constants.                                                      *)
(***************************************************************************)
\* if no_change_count >= 3: break
Patience == 3
\* if len(elements) > 5
MinPlausible == 5
\* best_match_diff <= 15
Threshold == 15
\* {index:04d}
PadWidth == 4

None == <<>>              \* None where a URL, bytes or a file name is expected
NoFocus == -1
MainWindow == 0

(***************************************************************************)
(* URLs.  A URL is a sequence of tokens: scheme, "//", host, then the      *)
(* path ("/" and "." are tokens of their own), then optionally "?" and a   *)
(* query.  The pool holds the URLs the environment hands to the program.   *)
(***************************************************************************)
UrlJpg == <<"http:", "//", "h", "/", "a", ".", "jpg">>
UrlPng == <<"http:", "//", "h", "/", "b", ".", "png">>
UrlBare == <<"http:", "//", "h", "/", "c", "?", "v", ".", "2">>
UrlJpg2 == <<"http:", "//", "h", "/", "d", "/", "b", ".", "jpg">>
UrlUpper == <<"http:", "//", "h", "/", "A", ".", "jpg">>
UrlPhp == <<"http:", "//", "h", "/", "e", ".", "php">>
UrlPool == {UrlJpg, UrlJpg2}                    \* URLs met during a run
StorePool == {UrlJpg, UrlPng, UrlBare}          \* URLs given to save_image alone
NamePool == {UrlJpg, UrlUpper, UrlPhp, UrlBare} \* URLs whose spelling matters

\* urlparse(url).path: what follows scheme://host, up to the query
RECURSIVE TakeUntil(_, _)
TakeUntil(s, stop) ==
    IF s = <<>> \/ Head(s) \in stop THEN <<>>
    ELSE <<Head(s)>> \o TakeUntil(Tail(s), stop)

UrlPath(url) == TakeUntil(SubSeq(url, 4, Len(url)), {"?", "#"})

\* Path(p).name: the tokens after the last "/"
LastIndexOf(s, t) ==
    LET hits == {k \in 1..Len(s) : s[k] = t}
    IN IF hits = {} THEN 0 ELSE CHOOSE k \in hits : \A j \in hits : j <= k

PathName(p) == SubSeq(p, LastIndexOf(p, "/") + 1, Len(p))

\* PurePath.suffix: from the last dot of the name, unless that dot starts or
\* ends the name
PathSuffix(p) ==
    LET name == PathName(p)
        d == LastIndexOf(name, ".")
    IN IF 1 < d /\ d < Len(name) THEN SubSeq(name, d, Len(name)) ELSE <<>>

\* ext = Path(urlparse(url).path).suffix or ".jpg"; if not ext or ext == ".": ".jpg"
Extension(url) ==
    LET ext == IF PathSuffix(UrlPath(url)) = <<>> THEN <<".", "jpg">>
               ELSE PathSuffix(UrlPath(url))
    IN IF ext = <<>> \/ ext = <<".">> THEN <<".", "jpg">> ELSE ext

\* decimal digits of n, most significant first
RECURSIVE Digits(_)
Digits(n) == IF n < 10 THEN <<n>> ELSE Digits(n \div 10) \o <<n % 10>>

\* format(n, "04d"): zero-padded to PadWidth digits, longer numbers unpadded
RECURSIVE ZeroPad(_, _)
ZeroPad(ds, w) == IF Len(ds) >= w THEN ds ELSE ZeroPad(<<0>> \o ds, w)

\* filename = f"yandex_{index:04d}{ext}"
FileNameNoOrdinal(url, idx) == <<"yandex_">> \o Extension(url)
FileNameUnpadded(url, idx) == <<"yandex_">> \o Digits(idx) \o Extension(url)
FileName(url, idx) ==
    <<"yandex_">> \o ZeroPad(Digits(idx), PadWidth) \o Extension(url)

\* any(x in url.lower() for x in [".jpg", ".jpeg", ".png", ".gif", ".webp"])
ImageWords == {"jpg", "jpeg", "png", "gif", "webp"}
LooksLikeImage(url) ==
    \E k \in 1..(Len(url) - 1) : url[k] = "." /\ url[k + 1] \in ImageWords

(***************************************************************************)
(* download_image_data.  net is what the network does to the request.      *)
(***************************************************************************)
NetOutcomes ==
    {"ok", "redirect", "not_found", "server_error", "timeout",
     "connection_error", "invalid_url"}

\* requests.get(url, headers=headers, timeout=15): a response, or an
\* exception (Timeout, ConnectionError, MissingSchema, ...)
RequestsGet(url, net) ==
    IF net \in {"timeout", "connection_error", "invalid_url"}
    THEN [raised |-> TRUE, kind |-> net, status |-> 0, content |-> None]
    ELSE [raised |-> FALSE, kind |-> "none",
          status |-> IF net = "ok" THEN 200
                     ELSE IF net = "redirect" THEN 304
                     ELSE IF net = "not_found" THEN 404
                     ELSE 500,
          content |-> url]

\* response.raise_for_status(): HTTPError for 4xx and 5xx
RaisesForStatus(status) == 400 <= status /\ status < 600

\* except: (a bare except clause catches every exception)
BareExceptTimeoutOnly(kind) == kind = "timeout"
BareExcept(kind) == TRUE

\* what is raised in the try block leaves the function unless it is caught;
\* caught, the function returns None
Handled(kind) ==
    IF BareExcept(kind) THEN [raised |-> FALSE, value |-> None]
    ELSE [raised |-> TRUE, value |-> None]

download_image_data(url, net) ==
    LET response == RequestsGet(url, net)
    IN IF response.raised THEN Handled(response.kind)
       ELSE IF RaisesForStatus(response.status) THEN Handled("http_error")
       ELSE [raised |-> FALSE, value |-> response.content]

(***************************************************************************)
(* save_image.  The store is (downloaded_urls, downloaded_count, files);   *)
(* write is what open()/f.write() does: "ok", or "fails" (an exception,    *)
(* caught by save_image).  files holds the names of the files written in   *)
(* full.                                                                   *)
(***************************************************************************)
WriteOutcomes == {"ok", "fails"}

\* if url in self.downloaded_urls
IsDuplicateCaseBlind(url, urls) ==
    \E u \in urls :
        /\ Len(u) = Len(url)
        /\ \A k \in 1..Len(u) : u[k] = url[k] \/ {u[k], url[k]} = {"a", "A"}
IsDuplicateNever(url, urls) == FALSE
IsDuplicate(url, urls) == url \in urls

SaveImageCountNamed(urls, count, fs, url, data, idx, write) ==
    LET name == FileName(url, count) IN
    IF IsDuplicate(url, urls)
    THEN [urls |-> urls, count |-> count, files |-> fs, ret |-> FALSE,
          dup |-> TRUE, name |-> None]
    ELSE IF write = "ok"
    THEN [urls |-> urls \cup {url}, count |-> count + 1,
          files |-> fs \cup {name}, ret |-> TRUE, dup |-> FALSE, name |-> name]
    ELSE [urls |-> urls, count |-> count, files |-> fs, ret |-> FALSE,
          dup |-> FALSE, name |-> name]
SaveImageForgetsCount(urls, count, fs, url, data, idx, write) ==
    LET name == FileName(url, idx) IN
    IF IsDuplicate(url, urls)
    THEN [urls |-> urls, count |-> count, files |-> fs, ret |-> FALSE,
          dup |-> TRUE, name |-> None]
    ELSE IF write = "ok"
    THEN [urls |-> urls \cup {url}, count |-> count,
          files |-> fs \cup {name}, ret |-> TRUE, dup |-> FALSE, name |-> name]
    ELSE [urls |-> urls, count |-> count, files |-> fs, ret |-> FALSE,
          dup |-> FALSE, name |-> name]
SaveImageChecksLate(urls, count, fs, url, data, idx, write) ==
    LET name == FileName(url, idx) IN
    IF write = "ok"
    THEN [urls |-> urls \cup {url}, count |-> count + 1,
          files |-> fs \cup {name}, ret |-> ~IsDuplicate(url, urls),
          dup |-> IsDuplicate(url, urls), name |-> name]
    ELSE [urls |-> urls, count |-> count, files |-> fs, ret |-> FALSE,
          dup |-> IsDuplicate(url, urls), name |-> name]
SaveImageCountsAttempts(urls, count, fs, url, data, idx, write) ==
    LET name == FileName(url, idx) IN
    IF IsDuplicate(url, urls)
    THEN [urls |-> urls, count |-> count, files |-> fs, ret |-> FALSE,
          dup |-> TRUE, name |-> None]
    ELSE IF write = "ok"
    THEN [urls |-> urls \cup {url}, count |-> count + 1,
          files |-> fs \cup {name}, ret |-> TRUE, dup |-> FALSE, name |-> name]
    ELSE [urls |-> urls, count |-> count + 1, files |-> fs, ret |-> FALSE,
          dup |-> FALSE, name |-> name]
SaveImageMarksBeforeWrite(urls, count, fs, url, data, idx, write) ==
    LET name == FileName(url, idx) IN
    IF IsDuplicate(url, urls)
    THEN [urls |-> urls, count |-> count, files |-> fs, ret |-> FALSE,
          dup |-> TRUE, name |-> None]
    ELSE IF write = "ok"
    THEN [urls |-> urls \cup {url}, count |-> count + 1,
          files |-> fs \cup {name}, ret |-> TRUE, dup |-> FALSE, name |-> name]
    ELSE [urls |-> urls \cup {url}, count |-> count, files |-> fs,
          ret |-> FALSE, dup |-> FALSE, name |-> name]
SaveImage(urls, count, fs, url, data, idx, write) ==
    LET name == FileName(url, idx) IN
    IF IsDuplicate(url, urls)
    THEN [urls |-> urls, count |-> count, files |-> fs, ret |-> FALSE,
          dup |-> TRUE, name |-> None]
    ELSE IF write = "ok"
    THEN [urls |-> urls \cup {url}, count |-> count + 1,
          files |-> fs \cup {name}, ret |-> TRUE, dup |-> FALSE, name |-> name]
    ELSE [urls |-> urls, count |-> count, files |-> fs, ret |-> FALSE,
          dup |-> FALSE, name |-> name]

\* the effect of one save_image call on the store and on the histories; the
\* list of calls is kept where save_image is studied alone
DoSave(url, data, idx, write) ==
    LET r == SaveImage(downloaded_urls, downloaded_count, files, url, data, idx,
                       write)
    IN /\ downloaded_urls' = r.urls
       /\ downloaded_count' = r.count
       /\ files' = r.files
       /\ records' = IF r.ret
                     THEN records \cup {[url |-> url, name |-> r.name, ordinal |-> idx]}
                     ELSE records
       /\ lastWrite' = IF r.dup THEN lastWrite ELSE write
       /\ calls' = IF pc \in {"store", "name"}
                   THEN Append(calls, [url |-> url, ordinal |-> idx,
                                       write |-> write, name |-> r.name,
                                       ret |-> r.ret, dup |-> r.dup])
                   ELSE calls
       /\ UNCHANGED fetches

NoSave ==
    UNCHANGED <<downloaded_urls, downloaded_count, files, records, calls,
                lastWrite, fetches>>

(***************************************************************************)
(* Groups of variables.                                                    *)
(***************************************************************************)
storeVars == <<downloaded_urls, downloaded_count, files, records, calls,
               lastWrite, fetches>>
scrollVars == <<max_scrolls, scroll_i, last_height, no_change_count, probes>>
refVars == <<thumbnail_url, thumbnail_data, preview_url, preview_data>>
localVars == <<thumbnail_url, thumbnail_data, preview_url, preview_data,
               success, low, tier, took>>
sessionVars == <<driver, quitCount, windows, focus>>
loopVars == <<total, index, attempted, failed, lastRet, acq, reprocess, prev,
             view, tree>>
guiVars == <<start_btn, status_label, workers, after_calls>>
scoreVars == <<candidate_urls, scores, best_match_url>>
\* the front end and the scoring, which the pipeline leaves alone
otherVars == <<guiVars, scoreVars>>
runFrame == <<variant, otherVars, scrollVars, driver, quitCount, total,
              attempted, reprocess, tree>>
resultVars == <<index, lastRet, failed, prev>>

NoAcq == [done |-> FALSE, most |-> 0, found |-> FALSE, fault |-> FALSE]
NoTree == [c |-> <<0, 0, 0, 0>>, links |-> 0]
NoView == [opened |-> FALSE, esc |-> "none", at |-> "none",
           direct |-> "none", scripted |-> "none"]
NoTook == [done |-> FALSE, sel |-> None, several |-> FALSE, isFirst |-> FALSE]
\* what the hi-fidelity step did: whether it ran, and what it selected
Selection(t) == [done |-> t.done, sel |-> t.sel]
NoPrev ==
    [over |-> FALSE, again |-> FALSE, preview_url |-> None,
     preview_data |-> None, thumbnail_url |-> None, thumbnail_data |-> None,
     took |-> Selection(NoTook), tier |-> "none", wfail |-> FALSE]

LocalsReset ==
    /\ thumbnail_url' = None
    /\ thumbnail_data' = None
    /\ preview_url' = None
    /\ preview_data' = None
    /\ success' = FALSE
    /\ low' = {}
    /\ tier' = "none"
    /\ took' = NoTook

\* a call on self.driver: after driver.quit() it would act on a dead session
DriverOp == opAfterQuit' = (opAfterQuit \/ driver = "quit")

(***************************************************************************)
(* scrape(): driver set-up, steps 1 and 2.                                 *)
(***************************************************************************)
\* no scoring is under way
ScoreIdle ==
    /\ candidate_urls = <<>>
    /\ scores = <<>>
    /\ best_match_url = None

\* ScraperGUI.__init__: the button can be pressed, nothing runs
GuiIdle ==
    /\ start_btn = "normal"
    /\ status_label = "Ready"
    /\ workers = <<>>
    /\ after_calls = <<>>

Init ==
    /\ variant \in {"cli", "local"}
    /\ GuiIdle
    /\ ScoreIdle
    /\ pc = "setup"
    /\ driver = "none"
    /\ quitCount = 0
    /\ opAfterQuit = FALSE
    /\ escaped = FALSE
    /\ max_scrolls \in 0..MaxScrolls
    /\ scroll_i = 0
    /\ last_height = 0
    /\ no_change_count = 0
    /\ probes = <<>>
    /\ total = 0
    /\ index = 0
    /\ attempted = {}
    /\ failed = {}
    /\ lastRet = "none"
    /\ windows = {}
    /\ focus = NoFocus
    /\ downloaded_urls = {}
    /\ downloaded_count = 0
    /\ files = {}
    /\ records = {}
    /\ calls = <<>>
    /\ lastWrite = "none"
    /\ tier = "none"
    /\ thumbnail_url = None
    /\ thumbnail_data = None
    /\ preview_url = None
    /\ preview_data = None
    /\ success = FALSE
    /\ acq = NoAcq
    /\ low = {}
    /\ reprocess = FALSE
    /\ took = NoTook
    /\ view = NoView
    /\ tree = NoTree
    /\ prev = NoPrev
    /\ fetches = <<>>

\* an exception leaves the try block of scrape(): the finally clause runs next
Escape ==
    /\ escaped' = TRUE
    /\ pc' = "finally"

\* self.setup_driver(): webdriver.Chrome(...) returns a session or raises
SetupDriver ==
    /\ pc = "setup"
    /\ UNCHANGED <<variant, otherVars, quitCount, opAfterQuit, scrollVars, loopVars,
                   storeVars, localVars>>
    /\ \/ /\ driver' = "live"
          /\ windows' = {MainWindow}
          /\ focus' = MainWindow
          /\ pc' = "step1"
          /\ UNCHANGED escaped
       \/ /\ Escape
          /\ UNCHANGED <<driver, windows, focus>>

\* step1_upload_image: every failure inside is caught and returns False
Step1 ==
    /\ pc = "step1"
    /\ DriverOp
    /\ UNCHANGED <<variant, otherVars, sessionVars, escaped, scrollVars, loopVars,
                   storeVars, localVars>>
    /\ \/ pc' = "step2"
       \/ pc' = "finally"

\* step2_click_similar_images: returns True on every path
Step2 ==
    /\ pc = "step2"
    /\ DriverOp
    /\ pc' = "step3"
    /\ UNCHANGED <<variant, otherVars, sessionVars, escaped, scrollVars, loopVars,
                   storeVars, localVars>>

(***************************************************************************)
(* step3_scroll_until_show_more.                                           *)
(***************************************************************************)
Heights == 0..MaxHeight

ScrollLocalsDrop ==
    /\ max_scrolls' = 0
    /\ scroll_i' = 0
    /\ last_height' = 0
    /\ no_change_count' = 0
    /\ probes' = <<>>

\* if no_change_count >= 3: break
ShouldBreakLate(n) == n > Patience
ShouldBreakNever(n) == FALSE
ShouldBreakEarly(n) == n >= Patience - 1
ShouldBreak(n) == n >= Patience

\* cli lines 228-229: the first height probe; local has no probe
Step3Enter ==
    /\ pc = "step3"
    /\ DriverOp
    /\ UNCHANGED <<variant, otherVars, sessionVars, loopVars, storeVars, localVars>>
    /\ \/ /\ variant = "cli"
          /\ \E h \in Heights :
                /\ last_height' = h
                /\ probes' = <<h>>
          /\ pc' = "scroll"
          /\ UNCHANGED <<max_scrolls, scroll_i, no_change_count, escaped>>
       \/ /\ variant = "local"
          /\ pc' = "scroll"
          /\ UNCHANGED <<scrollVars, escaped>>
       \/ /\ variant = "cli"
          /\ Escape
          /\ ScrollLocalsDrop

\* one iteration of the height-check loop (cli, v2): trigger, probe, compare
ScrollIter ==
    /\ pc = "scroll"
    /\ variant = "cli"
    /\ scroll_i < max_scrolls
    /\ DriverOp
    /\ UNCHANGED <<variant, otherVars, sessionVars, loopVars, storeVars, localVars>>
    /\ \/ \E h \in Heights :
            /\ probes' = Append(probes, h)
            /\ scroll_i' = scroll_i + 1
            /\ UNCHANGED <<max_scrolls, escaped>>
            /\ IF h > last_height
               THEN /\ last_height' = h
                    /\ no_change_count' = 0
                    /\ pc' = "scroll"
               ELSE /\ no_change_count' = no_change_count + 1
                    /\ UNCHANGED last_height
                    /\ pc' = IF ShouldBreak(no_change_count + 1)
                             THEN "step3ret" ELSE "scroll"
       \/ /\ Escape
          /\ ScrollLocalsDrop

\* what the look for the 'Show more' control gives: 1 when an element is
\* found and is displayed, 0 when it is hidden or find_element raises
ShowMoreChecks == {0, 1}

\* if show_more.is_displayed(): return True
ShowMoreBreakAlways(found) == TRUE
ShowMoreBreak(found) == found = 1

\* one iteration of the 'Show more' loop (local): scroll, look for the
\* control; probes keeps what each look gave
ScrollIterLocal ==
    /\ pc = "scroll"
    /\ variant = "local"
    /\ scroll_i < max_scrolls
    /\ DriverOp
    /\ UNCHANGED <<variant, otherVars, sessionVars, loopVars, storeVars, localVars>>
    /\ \/ \E found \in ShowMoreChecks :
            /\ scroll_i' = scroll_i + 1
            /\ probes' = Append(probes, found)
            /\ pc' = IF ShowMoreBreak(found) THEN "step3ret" ELSE "scroll"
            /\ UNCHANGED <<max_scrolls, last_height, no_change_count, escaped>>
       \/ /\ Escape
          /\ ScrollLocalsDrop

\* range(max_scrolls) is exhausted
ScrollExhausted ==
    /\ pc = "scroll"
    /\ scroll_i >= max_scrolls
    /\ pc' = "step3ret"
    /\ UNCHANGED <<variant, otherVars, sessionVars, opAfterQuit, escaped, scrollVars,
                   loopVars, storeVars, localVars>>

\* return True: the locals of step3 are gone
Step3Return ==
    /\ pc = "step3ret"
    /\ pc' = "step4"
    /\ ScrollLocalsDrop
    /\ UNCHANGED <<variant, otherVars, sessionVars, opAfterQuit, escaped, loopVars,
                   storeVars, localVars>>

(***************************************************************************)
(* step4_get_thumbnails and the loop of scrape().                          *)
(***************************************************************************)
Selectors == 1..4
GridSizes == 0..MaxElems

\* if len(elements) > 5
Plausible(n) == n > MinPlausible

\* the list step4 returns has this many elements: the first plausible
\* selector's, else the fallback's (links holding an img)
Step4Count(c, links) ==
    LET ok == {s \in Selectors : Plausible(c[s])}
    IN IF ok = {} THEN links
       ELSE c[CHOOSE s \in ok : \A t \in ok : s <= t]

\* the list step4 returns is this selector's; 0 is the list of the links
\* that hold an img
LinksWithImg == 0
Step4Selector(c) ==
    LET ok == {s \in Selectors : Plausible(c[s])}
    IN IF ok = {} THEN LinksWithImg
       ELSE CHOOSE s \in ok : \A t \in ok : s <= t

\* if not thumbnails: return
NoThumbnailsNever(n) == FALSE
NoThumbnails(n) == n = 0

Step4 ==
    /\ pc = "step4"
    /\ DriverOp
    /\ UNCHANGED <<variant, otherVars, sessionVars, scrollVars, storeVars, localVars,
                   attempted, failed, lastRet, acq, reprocess, prev, view, tree>>
    /\ \/ \E c \in [Selectors -> GridSizes], links \in GridSizes :
            /\ total' = Step4Count(c, links)
            /\ UNCHANGED escaped
            /\ IF NoThumbnails(Step4Count(c, links))
               THEN /\ pc' = "finally"
                    /\ UNCHANGED index
               ELSE /\ pc' = "loop"
                    /\ index' = 1
       \/ /\ Escape
          /\ UNCHANGED <<total, index>>

\* enumerate(thumbnails, 1) is exhausted
LoopDoneEarly(i, n) == i >= n
LoopDone(i, n) == i > n

\* for i, thumbnail in enumerate(thumbnails, 1): call step5_to_10
LoopCall ==
    /\ pc = "loop"
    /\ ~LoopDone(index, total)
    /\ attempted' = attempted \cup {index}
    /\ pc' = IF variant = "cli" THEN "reacquire" ELSE "thumbref"
    /\ acq' = NoAcq
    /\ lastRet' = "none"
    /\ lastWrite' = "none"
    /\ view' = NoView
    /\ UNCHANGED <<variant, otherVars, sessionVars, opAfterQuit, escaped, scrollVars,
                   localVars, total, index, failed, reprocess, prev,
                   downloaded_urls,
                   downloaded_count, files, records, calls, fetches, tree>>

\* the loop is over: the summary is printed
Summary ==
    /\ pc = "loop"
    /\ LoopDone(index, total)
    /\ pc' = "finally"
    /\ UNCHANGED <<variant, otherVars, sessionVars, opAfterQuit, escaped, scrollVars,
                   loopVars, storeVars, localVars>>

\* the summary printed: "Successfully downloaded: {downloaded_count}/{N}"
SummaryLine == [saved |-> downloaded_count, of |-> total]

\* if self.driver: self.driver.quit()
ShouldQuitNever(d) == FALSE
ShouldQuit(d) == d # "none"

Finally ==
    /\ pc = "finally"
    /\ pc' = "done"
    /\ IF ShouldQuit(driver)
       THEN /\ DriverOp
            /\ driver' = "quit"
            /\ quitCount' = quitCount + 1
            /\ windows' = {}
            /\ focus' = NoFocus
       ELSE UNCHANGED <<sessionVars, opAfterQuit>>
    /\ UNCHANGED <<variant, otherVars, escaped, scrollVars, loopVars, storeVars, localVars>>

(***************************************************************************)
(* step5_to_10_process_thumbnail: what the two variants share.             *)
(***************************************************************************)
\* a driver call against the current document needs a window in focus
FocusOk == focus \in windows

Max(S) == CHOOSE m \in S : \A x \in S : x <= m

\* return: the locals of the call are gone, the loop of scrape() goes on
Return(ret) ==
    /\ pc' = "loop"
    /\ index' = index + 1
    /\ lastRet' = ret
    /\ failed' = IF ret = "False" THEN failed \cup {index} ELSE failed
    /\ prev' = IF reprocess /\ ret = "True" /\ ~prev.over
               THEN [over |-> TRUE, again |-> FALSE, preview_url |-> preview_url,
                     preview_data |-> preview_data,
                     thumbnail_url |-> thumbnail_url,
                     thumbnail_data |-> thumbnail_data,
                     took |-> Selection(took),
                     tier |-> tier, wfail |-> (lastWrite = "fails")]
               ELSE prev
    /\ LocalsReset

\* except Exception: ... return False (cli lines 500-506, local 704-715)
OuterExceptEscapes ==
    /\ Escape
    /\ lastRet' = "raised"
    /\ LocalsReset
    /\ UNCHANGED <<index, failed, prev>>
OuterExceptReturn ==
    /\ Return("False")
    /\ UNCHANGED escaped

\* cli lines 303-325: the first selector holding at least index elements
\* gives elements[index - 1]
AcquirePassesOffByOne(n, idx) == n >= idx - 1
AcquirePasses(n, idx) == n >= idx

Acquire(c, idx) ==
    LET ok == {s \in Selectors : AcquirePasses(c[s], idx)}
        s0 == CHOOSE s \in ok : \A t \in ok : s <= t
    IN [done |-> TRUE,
        most |-> Max({c[s] : s \in Selectors}),
        found |-> ok # {},
        \* elements[index - 1] is an IndexError outside 0..len-1
        fault |-> ok # {} /\ ~((idx - 1) \in 0..(c[s0] - 1))]

\* if not found_fresh: return False (an IndexError returns False as well)
FoundFreshAlways(a) == TRUE
FoundFresh(a) == a.found /\ ~a.fault

\* the selector whose list re-acquisition indexes; 0 when there is none
AcquireSelector(c, idx) ==
    LET ok == {s \in Selectors : AcquirePasses(c[s], idx)}
    IN IF ok = {} THEN LinksWithImg
       ELSE CHOOSE s \in ok : \A t \in ok : s <= t

Reacquire ==
    /\ UNCHANGED view
    /\ pc = "reacquire"
    /\ DriverOp
    /\ UNCHANGED <<runFrame, escaped, windows, focus, storeVars>>
    /\ \/ /\ FocusOk
          /\ \E c \in [Selectors -> GridSizes] :
                /\ acq' = Acquire(c, index)
                /\ IF FoundFresh(Acquire(c, index))
                   THEN /\ pc' = "click"
                        /\ UNCHANGED <<resultVars, localVars>>
                   ELSE Return("False")
       \/ \* find_elements raises: except Exception: return False
          /\ acq' = [done |-> TRUE, most |-> 0, found |-> FALSE, fault |-> FALSE]
          /\ Return("False")

\* local lines 287-300: the reference thumbnail, read through the handle
\* step4 collected; every failure is swallowed
ThumbRef ==
    /\ UNCHANGED view
    /\ pc = "thumbref"
    /\ DriverOp
    /\ pc' = "click"
    /\ UNCHANGED <<runFrame, escaped, windows, focus, storeVars, resultVars,
                   acq, preview_url, preview_data, success, tier, low, took>>
    /\ \/ /\ FocusOk
          /\ \E u \in UrlPool, fetched \in BOOLEAN :
                /\ thumbnail_url' = u
                /\ thumbnail_data' = IF fetched THEN u ELSE None
       \/ UNCHANGED <<thumbnail_url, thumbnail_data>>

\* try: thumbnail.click()  except: execute_script("arguments[0].click();")
\* d, s: whether the direct click, the scripted click, would succeed
ClickNoRetry(d, s) ==
    [opened |-> d, direct |-> IF d THEN "ok" ELSE "failed", scripted |-> "none"]
ClickOutcome(d, s) ==
    IF d THEN [opened |-> TRUE, direct |-> "ok", scripted |-> "none"]
    ELSE [opened |-> s, direct |-> "failed",
          scripted |-> IF s THEN "ok" ELSE "failed"]

\* the clicks of step 5 are remembered until the next step has run
ClicksOver(v) == [v EXCEPT !.direct = "none", !.scripted = "none"]

\* scrollIntoView, then click with the scripted click as the retry
Click ==
    /\ pc = "click"
    /\ DriverOp
    /\ acq' = NoAcq
    /\ UNCHANGED <<runFrame, escaped, windows, focus, storeVars, resultVars,
                   localVars>>
    /\ \/ \E d, s \in BOOLEAN :
            LET o == ClickOutcome(d, s)
            IN /\ (o.opened => FocusOk)
               /\ view' = [view EXCEPT !.opened = o.opened,
                                       !.direct = o.direct,
                                       !.scripted = o.scripted]
               /\ pc' = IF o.opened THEN "preview" ELSE "outerexc"
       \/ \* scrollIntoView raises: no click is made
          /\ pc' = "outerexc"
          /\ UNCHANGED view

\* cli lines 344-399: the preview image of the detail view and its bytes
PreviewCli ==
    /\ view' = ClicksOver(view)
    /\ pc = "preview"
    /\ variant = "cli"
    /\ DriverOp
    /\ UNCHANGED <<runFrame, escaped, windows, focus, storeVars, resultVars,
                   acq, thumbnail_url, thumbnail_data, success, tier, low, took>>
    /\ \/ /\ FocusOk
          /\ pc' = "dlclick"
          /\ \/ \E u \in UrlPool, fetched \in BOOLEAN :
                  /\ preview_url' = u
                  /\ preview_data' = IF fetched THEN u ELSE None
             \/ UNCHANGED <<preview_url, preview_data>>
       \/ /\ pc' = "outerexc"
          /\ UNCHANGED <<preview_url, preview_data>>

\* local lines 317-377: the largest preview image, unless it is the
\* thumbnail; then the thumbnail as the ultimate fallback
PreviewLocal ==
    /\ view' = ClicksOver(view)
    /\ pc = "preview"
    /\ variant = "local"
    /\ DriverOp
    /\ pc' = "dlclick"
    /\ UNCHANGED <<runFrame, escaped, windows, focus, storeVars, resultVars,
                   acq, thumbnail_url, thumbnail_data, success, tier, low, took>>
    /\ \E u \in UrlPool \cup {None}, fetched \in BOOLEAN :
          LET url == IF FocusOk THEN u ELSE None
              data == IF url # None /\ url # thumbnail_url /\ fetched
                      THEN url ELSE None
          IN IF data = None /\ thumbnail_data # None
             THEN /\ preview_data' = thumbnail_data
                  /\ preview_url' = thumbnail_url
             ELSE /\ preview_data' = data
                  /\ preview_url' = url

\* steps 6 and 7: find a download button, click it, look for a new window
DownloadClick ==
    /\ UNCHANGED view
    /\ pc = "dlclick"
    /\ DriverOp
    /\ UNCHANGED <<runFrame, escaped, focus, storeVars, resultVars, acq,
                   localVars>>
    /\ \/ \* the click opens a window
          /\ FocusOk
          /\ Cardinality(windows) < MaxWindows
          /\ windows' = windows \cup {Max(windows) + 1}
          /\ pc' = "switch"
       \/ \* no button is found, or no window appears
          /\ pc' = "fallback"
          /\ UNCHANGED windows
       \/ \* window_handles or both clicks raise
          /\ pc' = "innerexc"
          /\ UNCHANGED windows
       \/ \* the click opens a window and the next driver call raises
          /\ FocusOk
          /\ Cardinality(windows) < MaxWindows
          /\ windows' = windows \cup {Max(windows) + 1}
          /\ pc' = "innerexc"

\* self.driver.switch_to.window(list(new_windows)[0])
SwitchToNew ==
    /\ UNCHANGED view
    /\ pc = "switch"
    /\ DriverOp
    /\ UNCHANGED <<runFrame, escaped, windows, storeVars, resultVars, acq,
                   localVars>>
    /\ \/ /\ focus' = Max(windows)
          /\ pc' = "hifi"
       \/ /\ pc' = "innerexc"
          /\ UNCHANGED focus

(***************************************************************************)
(* The hi-fidelity step: the candidates of the new window, and the one     *)
(* the code tries to save.                                                 *)
(***************************************************************************)
\* candidate URLs in enumeration order: no URL twice (src not in cand_urls)
CandSeqs(pool) ==
    {q \in UNION {[1..n -> pool] : n \in 0..MaxCands} :
        \A a, b \in 1..Len(q) : a # b => q[a] # q[b]}

\* what download_image_data and the image library yield for one candidate:
\* a number (the hash distance to the reference; the pixel count where the
\* largest image is looked for), or no bytes, or bytes that do not decode
Measures == {Threshold - 1, Threshold, Threshold + 1}
NoFetch == -1
NoDecode == -2
Unmeasured == {NoFetch, NoDecode}

Measured(m) == {k \in DOMAIN m : m[k] \in Measures}

\* cli lines 466-472: best_url = cand_urls[0], saved when its bytes arrive
SelectCli(cands, m) ==
    IF cands = <<>> \/ m[1] = NoFetch THEN None ELSE cands[1]

LastSmallest(cands, m) ==
    LET ks == Measured(m)
        best == CHOOSE k \in ks :
                    \A j \in ks : m[k] < m[j] \/ (m[k] = m[j] /\ k >= j)
    IN IF ks = {} \/ m[best] > Threshold THEN None ELSE cands[best]

\* local lines 519-578: the first candidate of strictly smallest distance,
\* taken when that distance is at most the threshold
FirstSmallest(cands, m) ==
    LET ks == Measured(m)
        best == CHOOSE k \in ks :
                    \A j \in ks : m[k] < m[j] \/ (m[k] = m[j] /\ k <= j)
    IN IF ks = {} \/ m[best] > Threshold THEN None ELSE cands[best]

\* local lines 588-620: the first candidate of strictly largest pixel count
FirstLargest(cands, m) ==
    LET ks == Measured(m)
        best == CHOOSE k \in ks :
                    \A j \in ks : m[k] > m[j] \/ (m[k] = m[j] /\ k <= j)
    IN IF ks = {} THEN None ELSE cands[best]

SelectLocal(cands, m, thumb) ==
    IF cands = <<>> THEN None
    ELSE IF thumb # None THEN FirstSmallest(cands, m)
    ELSE FirstLargest(cands, m)

\* history: the URLs of the candidates at least distance from the reference,
\* when there is a reference and that distance is within the threshold
LowUrls(cands, m, ref) ==
    IF ref = None THEN {}
    ELSE {cands[k] : k \in {i \in Measured(m) :
                              /\ m[i] <= Threshold
                              /\ \A j \in Measured(m) : m[i] <= m[j]}}

\* save_image(url, data, index) from the pipeline; success = its result
SaveAndFlag(url, data, step) ==
    \E w \in WriteOutcomes :
        LET r == SaveImage(downloaded_urls, downloaded_count, files, url, data,
                           index, w)
        IN /\ DoSave(url, data, index, w)
           /\ success' = r.ret
           /\ tier' = IF r.ret THEN step ELSE tier

\* cli lines 452-472, local lines 447-620: collect the candidates of the new
\* window, fetch (local: and measure) them, save the selected one
HiFi ==
    /\ UNCHANGED view
    /\ pc = "hifi"
    /\ DriverOp
    /\ UNCHANGED <<runFrame, escaped, windows, focus, resultVars, acq,
                   refVars>>
    /\ \/ /\ FocusOk
          /\ pc' = "closewin"
          /\ \E q \in CandSeqs(IF variant = "cli" THEN UrlPool
                               ELSE {u \in UrlPool : LooksLikeImage(u)}) :
             \E m \in [1..Len(q) -> Measures \cup Unmeasured] :
                LET sel == IF variant = "cli" THEN SelectCli(q, m)
                           ELSE SelectLocal(q, m, thumbnail_data)
                IN /\ low' = LowUrls(q, m, IF variant = "cli" THEN preview_data
                                           ELSE thumbnail_data)
                   /\ took' = [done |-> TRUE, sel |-> sel,
                               \* several candidates, the first one readable
                               several |-> Len(q) >= 2 /\ m[1] \in Measures,
                               isFirst |-> q # <<>> /\ sel = q[1]]
                   /\ IF sel = None
                      THEN NoSave /\ UNCHANGED <<success, tier>>
                      ELSE SaveAndFlag(sel, sel, "Resolved")
       \/ \* a driver call in the new window raises
          /\ pc' = "innerexc"
          /\ NoSave
          /\ UNCHANGED <<success, tier, low, took>>

\* self.driver.close(); self.driver.switch_to.window(self.main_window)
CloseNew ==
    /\ UNCHANGED view
    /\ pc = "closewin"
    /\ DriverOp
    /\ UNCHANGED <<runFrame, escaped, storeVars, resultVars, acq, localVars>>
    /\ \/ /\ FocusOk
          /\ MainWindow \in windows \ {focus}
          /\ windows' = windows \ {focus}
          /\ focus' = MainWindow
          /\ pc' = "fallback"
       \/ \* the window closes, the switch raises
          /\ FocusOk
          /\ windows' = windows \ {focus}
          /\ focus' = NoFocus
          /\ pc' = "innerexc"
       \/ \* close() raises
          /\ pc' = "innerexc"
          /\ UNCHANGED <<windows, focus>>

\* cli lines 480-483: if more than one window is open, switch to the main one
InnerExceptCli ==
    /\ UNCHANGED view
    /\ pc = "innerexc"
    /\ variant = "cli"
    /\ DriverOp
    /\ UNCHANGED <<runFrame, escaped, windows, storeVars, resultVars, acq,
                   localVars>>
    /\ \/ /\ Cardinality(windows) > 1
          /\ MainWindow \in windows
          /\ focus' = MainWindow
          /\ pc' = "fallback"
       \/ /\ Cardinality(windows) <= 1
          /\ pc' = "fallback"
          /\ UNCHANGED focus
       \/ \* the handler itself raises: the outer handler takes over
          /\ pc' = "outerexc"
          /\ UNCHANGED focus

\* local lines 631-639: if more than one window is open, close the current
\* one; switch to the main one; whatever is raised here is swallowed
InnerExceptLocal ==
    /\ UNCHANGED view
    /\ pc = "innerexc"
    /\ variant = "local"
    /\ DriverOp
    /\ pc' = "fallback"
    /\ UNCHANGED <<runFrame, escaped, storeVars, resultVars, acq, localVars>>
    /\ \/ /\ Cardinality(windows) > 1
          /\ FocusOk
          /\ windows' = windows \ {focus}
          /\ \/ /\ MainWindow \in windows \ {focus}
                /\ focus' = MainWindow
             \/ focus' = NoFocus
       \/ /\ Cardinality(windows) <= 1
          /\ MainWindow \in windows
          /\ focus' = MainWindow
          /\ UNCHANGED windows
       \/ UNCHANGED <<windows, focus>>

\* if not success and preview_data and preview_url
UseFallbackNever(s, data, url) == FALSE
UseFallbackAlways(s, data, url) == data # None /\ url # None
UseFallbackUnfetched(s, data, url) == ~s /\ url # None
UseFallback(s, data, url) == ~s /\ data # None /\ url # None

\* cli lines 485-489: the preview image is saved when nothing was
FallbackCli ==
    /\ UNCHANGED view
    /\ pc = "fallback"
    /\ variant = "cli"
    /\ pc' = "esc"
    /\ UNCHANGED <<runFrame, escaped, opAfterQuit, windows, focus, resultVars,
                   acq, refVars, low, took>>
    /\ IF UseFallback(success, preview_data, preview_url)
       THEN SaveAndFlag(preview_url, preview_data, "FallbackUsed")
       ELSE NoSave /\ UNCHANGED <<success, tier>>

\* local lines 641-661
FallbackLocal ==
    /\ UNCHANGED view
    /\ pc = "fallback"
    /\ variant = "local"
    /\ pc' = "esc"
    /\ UNCHANGED <<runFrame, escaped, opAfterQuit, windows, focus, resultVars,
                   acq, refVars, low, took>>
    /\ IF success THEN NoSave /\ UNCHANGED <<success, tier>>
       ELSE IF /\ preview_url # None
               /\ preview_data # None
               /\ preview_url \notin downloaded_urls
       THEN SaveAndFlag(preview_url, preview_data, "FallbackUsed")
       ELSE IF /\ thumbnail_url # None
               /\ thumbnail_data # None
               /\ thumbnail_url \notin downloaded_urls
       THEN SaveAndFlag(thumbnail_url, thumbnail_data, "FallbackUsed")
       ELSE NoSave /\ UNCHANGED <<success, tier>>

\* ActionChains(self.driver).send_keys(Keys.ESCAPE).perform()
EscOutcome(raised) == IF raised THEN "failed" ELSE "sent"

\* try: <ESC> except: pass; return True
Step8RetPropagates(raised) == IF raised THEN "False" ELSE "True"
Step8Ret(raised) == "True"

\* step 8: ESC (local: then the X button); failures are swallowed; return True
ClosePreview ==
    /\ pc = "esc"
    /\ DriverOp
    /\ \E raised \in BOOLEAN :
          /\ view' = [view EXCEPT !.esc = EscOutcome(raised), !.at = "step8"]
          /\ Return(Step8Ret(raised))
    /\ UNCHANGED <<runFrame, escaped, windows, focus, storeVars, acq>>

\* cli lines 500-506: ESC, return False
OuterExceptCli ==
    /\ pc = "outerexc"
    /\ variant = "cli"
    /\ DriverOp
    /\ OuterExceptReturn
    /\ \E raised \in BOOLEAN :
          view' = [view EXCEPT !.esc = EscOutcome(raised), !.at = "except"]
    /\ UNCHANGED <<runFrame, windows, focus, storeVars, acq>>

\* local lines 704-715: close windows until one is left (window_handles[-1]
\* each time; the order of the handles is the driver's), switch to the main
\* one, ESC; whatever is raised here is swallowed; return False
OuterExceptLocal ==
    /\ pc = "outerexc"
    /\ variant = "local"
    /\ DriverOp
    /\ OuterExceptReturn
    /\ UNCHANGED <<runFrame, storeVars, acq>>
    /\ \/ /\ Cardinality(windows) > 1
          /\ \E keep \in windows, raised \in BOOLEAN :
                /\ windows' = {keep}
                /\ focus' = IF keep = MainWindow THEN MainWindow ELSE NoFocus
                \* the switch to a main window that is closed raises: no ESC
                /\ view' = [view EXCEPT
                               !.esc = IF keep = MainWindow
                                       THEN EscOutcome(raised) ELSE "none",
                               !.at = "except"]
       \/ /\ Cardinality(windows) <= 1
          /\ MainWindow \in windows
          /\ focus' = MainWindow
          /\ UNCHANGED windows
          /\ \E raised \in BOOLEAN :
                view' = [view EXCEPT !.esc = EscOutcome(raised), !.at = "except"]
       \/ \* a driver call of the recovery raises, at the ESC or before it
          /\ UNCHANGED <<windows, focus>>
          /\ \E e \in {"none", "failed"} :
                view' = [view EXCEPT !.esc = e, !.at = "except"]

(***************************************************************************)
(* The run: scrape() from construction to the end of its finally clause.   *)
(***************************************************************************)
Next ==
    \/ SetupDriver
    \/ Step1
    \/ Step2
    \/ Step3Enter
    \/ ScrollIter
    \/ ScrollIterLocal
    \/ ScrollExhausted
    \/ Step3Return
    \/ Step4
    \/ LoopCall
    \/ Reacquire
    \/ ThumbRef
    \/ Click
    \/ PreviewCli
    \/ PreviewLocal
    \/ DownloadClick
    \/ SwitchToNew
    \/ HiFi
    \/ CloseNew
    \/ InnerExceptCli
    \/ InnerExceptLocal
    \/ FallbackCli
    \/ FallbackLocal
    \/ ClosePreview
    \/ OuterExceptCli
    \/ OuterExceptLocal
    \/ Summary
    \/ Finally

Spec == Init /\ [][Next]_vars

(***************************************************************************)
(* step5_to_10 called a second time for the ordinal it has just processed, *)
(* on the same scraper object (yandex_image_scraper.py): one ordinal, the   *)
(* session already on the results page.                                    *)
(***************************************************************************)
RepeatInit ==
    /\ variant = "cli"
    /\ GuiIdle
    /\ ScoreIdle
    /\ pc = "loop"
    /\ driver = "live"
    /\ quitCount = 0
    /\ opAfterQuit = FALSE
    /\ escaped = FALSE
    /\ max_scrolls = 0
    /\ scroll_i = 0
    /\ last_height = 0
    /\ no_change_count = 0
    /\ probes = <<>>
    /\ total = 1
    /\ index = 1
    /\ attempted = {}
    /\ failed = {}
    /\ lastRet = "none"
    /\ windows = {MainWindow}
    /\ focus = MainWindow
    /\ downloaded_urls = {}
    /\ downloaded_count = 0
    /\ files = {}
    /\ records = {}
    /\ calls = <<>>
    /\ lastWrite = "none"
    /\ tier = "none"
    /\ thumbnail_url = None
    /\ thumbnail_data = None
    /\ preview_url = None
    /\ preview_data = None
    /\ success = FALSE
    /\ acq = NoAcq
    /\ low = {}
    /\ reprocess = TRUE
    /\ took = NoTook
    /\ view = NoView
    /\ tree = NoTree
    /\ prev = NoPrev
    /\ fetches = <<>>

\* the same call again: step5_to_10_process_thumbnail(thumbnail, index, total)
Reprocess ==
    /\ pc = "loop"
    /\ reprocess
    /\ prev.over
    /\ ~prev.again
    /\ index' = index - 1
    /\ prev' = [prev EXCEPT !.again = TRUE]
    /\ pc' = "reacquire"
    /\ acq' = NoAcq
    /\ lastRet' = "none"
    /\ lastWrite' = "none"
    /\ view' = NoView
    /\ UNCHANGED <<variant, otherVars, sessionVars, opAfterQuit, escaped, scrollVars,
                   localVars, total, attempted, failed, reprocess,
                   downloaded_urls, downloaded_count, files, records, calls, fetches,
                   tree>>

RepeatNext ==
    \/ LoopCall
    \/ Reprocess
    \/ Reacquire
    \/ Click
    \/ PreviewCli
    \/ DownloadClick
    \/ SwitchToNew
    \/ HiFi
    \/ CloseNew
    \/ InnerExceptCli
    \/ FallbackCli
    \/ ClosePreview
    \/ OuterExceptCli

SpecRepeat == RepeatInit /\ [][RepeatNext]_vars

(***************************************************************************)
(* step4_get_thumbnails and the re-acquisition of step5_to_10 on one tree   *)
(* that does not change between them.                                      *)
(***************************************************************************)
IndexInit ==
    /\ variant = "cli"
    /\ GuiIdle
    /\ ScoreIdle
    /\ pc = "index"
    /\ driver = "none"
    /\ quitCount = 0
    /\ opAfterQuit = FALSE
    /\ escaped = FALSE
    /\ max_scrolls = 0
    /\ scroll_i = 0
    /\ last_height = 0
    /\ no_change_count = 0
    /\ probes = <<>>
    /\ total = 0
    /\ index = 0
    /\ attempted = {}
    /\ failed = {}
    /\ lastRet = "none"
    /\ windows = {}
    /\ focus = NoFocus
    /\ downloaded_urls = {}
    /\ downloaded_count = 0
    /\ files = {}
    /\ records = {}
    /\ calls = <<>>
    /\ lastWrite = "none"
    /\ tier = "none"
    /\ thumbnail_url = None
    /\ thumbnail_data = None
    /\ preview_url = None
    /\ preview_data = None
    /\ success = FALSE
    /\ acq = NoAcq
    /\ low = {}
    /\ reprocess = FALSE
    /\ took = NoTook
    /\ view = NoView
    /\ tree \in [c : [Selectors -> 0..MaxGrid], links : 0..MaxGrid]
    /\ prev = NoPrev
    /\ fetches = <<>>

\* thumbnails = self.step4_get_thumbnails()
IndexBuild ==
    /\ pc = "index"
    /\ UNCHANGED <<variant, otherVars, sessionVars, opAfterQuit, scrollVars, storeVars,
                   localVars, attempted, failed, lastRet, acq, reprocess, prev,
                   view, tree>>
    /\ \/ /\ total' = Step4Count(tree.c, tree.links)
          /\ index' = 1
          /\ pc' = "reacq"
          /\ UNCHANGED escaped
       \/ \* execute_script, or find_elements outside the try, raises
          /\ Escape
          /\ UNCHANGED <<total, index>>

\* the re-acquisition of step5_to_10 for the next ordinal of the index
IndexReacquire ==
    /\ pc = "reacq"
    /\ index <= total
    /\ acq' = Acquire(tree.c, index)
    /\ index' = index + 1
    /\ UNCHANGED <<variant, otherVars, pc, sessionVars, opAfterQuit, escaped, scrollVars,
                   storeVars, localVars, total, attempted, failed, lastRet,
                   reprocess, prev, view, tree>>

IndexNext == IndexBuild \/ IndexReacquire

SpecIndex == IndexInit /\ [][IndexNext]_vars

(***************************************************************************)
(* The fetch service alone: download_image_data called with any URL, the   *)
(* network doing anything.                                                 *)
(***************************************************************************)
FetchInit ==
    /\ variant = "cli"
    /\ GuiIdle
    /\ ScoreIdle
    /\ pc = "fetch"
    /\ driver = "none"
    /\ quitCount = 0
    /\ opAfterQuit = FALSE
    /\ escaped = FALSE
    /\ max_scrolls = 0
    /\ scroll_i = 0
    /\ last_height = 0
    /\ no_change_count = 0
    /\ probes = <<>>
    /\ total = 0
    /\ index = 0
    /\ attempted = {}
    /\ failed = {}
    /\ lastRet = "none"
    /\ windows = {}
    /\ focus = NoFocus
    /\ downloaded_urls = {}
    /\ downloaded_count = 0
    /\ files = {}
    /\ records = {}
    /\ calls = <<>>
    /\ lastWrite = "none"
    /\ tier = "none"
    /\ thumbnail_url = None
    /\ thumbnail_data = None
    /\ preview_url = None
    /\ preview_data = None
    /\ success = FALSE
    /\ acq = NoAcq
    /\ low = {}
    /\ reprocess = FALSE
    /\ took = NoTook
    /\ view = NoView
    /\ tree = NoTree
    /\ prev = NoPrev
    /\ fetches = <<>>

FetchCall ==
    /\ pc = "fetch"
    /\ Len(fetches) < MaxFetches
    /\ \E url \in StorePool, net \in NetOutcomes :
          LET r == download_image_data(url, net)
          IN fetches' = Append(fetches, [url |-> url, net |-> net,
                                         raised |-> r.raised, value |-> r.value])
    /\ UNCHANGED <<variant, otherVars, pc, sessionVars, opAfterQuit, escaped, scrollVars,
                   loopVars, localVars, downloaded_urls, downloaded_count,
                   files, records, calls, lastWrite>>

FetchNext == FetchCall

SpecFetch == FetchInit /\ [][FetchNext]_vars

(***************************************************************************)
(* save_image called with URLs that differ in spelling and in extension.   *)
(***************************************************************************)
NameInit ==
    /\ variant = "cli"
    /\ GuiIdle
    /\ ScoreIdle
    /\ pc = "name"
    /\ driver = "none"
    /\ quitCount = 0
    /\ opAfterQuit = FALSE
    /\ escaped = FALSE
    /\ max_scrolls = 0
    /\ scroll_i = 0
    /\ last_height = 0
    /\ no_change_count = 0
    /\ probes = <<>>
    /\ total = 0
    /\ index = 0
    /\ attempted = {}
    /\ failed = {}
    /\ lastRet = "none"
    /\ windows = {}
    /\ focus = NoFocus
    /\ downloaded_urls = {}
    /\ downloaded_count = 0
    /\ files = {}
    /\ records = {}
    /\ calls = <<>>
    /\ lastWrite = "none"
    /\ tier = "none"
    /\ thumbnail_url = None
    /\ thumbnail_data = None
    /\ preview_url = None
    /\ preview_data = None
    /\ success = FALSE
    /\ acq = NoAcq
    /\ low = {}
    /\ reprocess = FALSE
    /\ took = NoTook
    /\ view = NoView
    /\ tree = NoTree
    /\ prev = NoPrev
    /\ fetches = <<>>

NameCall ==
    /\ pc = "name"
    /\ Len(calls) < MaxNameCalls
    /\ \E url \in NamePool, idx \in 1..MaxIndex, w \in WriteOutcomes :
          DoSave(url, url, idx, w)
    /\ UNCHANGED <<variant, otherVars, pc, sessionVars, opAfterQuit, escaped, scrollVars,
                   loopVars, localVars>>

NameNext == NameCall

SpecNames == NameInit /\ [][NameNext]_vars

(***************************************************************************)
(* The store alone: save_image called with any arguments, in any order.    *)
(***************************************************************************)
StoreInit ==
    /\ variant = "cli"
    /\ GuiIdle
    /\ ScoreIdle
    /\ pc = "store"
    /\ driver = "none"
    /\ quitCount = 0
    /\ opAfterQuit = FALSE
    /\ escaped = FALSE
    /\ max_scrolls = 0
    /\ scroll_i = 0
    /\ last_height = 0
    /\ no_change_count = 0
    /\ probes = <<>>
    /\ total = 0
    /\ index = 0
    /\ attempted = {}
    /\ failed = {}
    /\ lastRet = "none"
    /\ windows = {}
    /\ focus = NoFocus
    /\ downloaded_urls = {}
    /\ downloaded_count = 0
    /\ files = {}
    /\ records = {}
    /\ calls = <<>>
    /\ lastWrite = "none"
    /\ tier = "none"
    /\ thumbnail_url = None
    /\ thumbnail_data = None
    /\ preview_url = None
    /\ preview_data = None
    /\ success = FALSE
    /\ acq = NoAcq
    /\ low = {}
    /\ reprocess = FALSE
    /\ took = NoTook
    /\ view = NoView
    /\ tree = NoTree
    /\ prev = NoPrev
    /\ fetches = <<>>

\* the bytes handed to save_image, named by the URL they were fetched from
DataPool == UrlPool

StoreCall ==
    /\ pc = "store"
    /\ Len(calls) < MaxCalls
    /\ \E url \in StorePool, data \in DataPool, idx \in 1..MaxIndex,
          w \in WriteOutcomes :
          DoSave(url, data, idx, w)
    /\ UNCHANGED <<variant, otherVars, pc, sessionVars, opAfterQuit, escaped, scrollVars,
                   loopVars, localVars>>

StoreNext == StoreCall

SpecStore == StoreInit /\ [][StoreNext]_vars
(***************************************************************************)
(* Properties of the scroll loop.                                          *)
(***************************************************************************)
\* probe k (k >= 2) did not grow: it is no taller than the tallest before it
FlatProbe(k) == probes[k] <= Max({probes[i] : i \in 1..(k - 1)})

\* three probes in a row that did not grow
FlatRun ==
    \E k \in 2..(Len(probes) - 2) :
        FlatProbe(k) /\ FlatProbe(k + 1) /\ FlatProbe(k + 2)

\* C1: the height-check loop starts at most max_scrolls iterations, and it
\* is never about to start another one once three probes in a row have
\* failed to grow.
C1_ScrollConverges ==
    variant = "cli" =>
        /\ scroll_i <= max_scrolls
        /\ Len(probes) <= max_scrolls + 1
        /\ pc = "scroll" => ~FlatRun
        /\ pc = "step3ret" => (FlatRun \/ scroll_i = max_scrolls)

\* the loop has stopped on three flat probes with iterations to spare
C1_Witness ==
    /\ variant = "cli"
    /\ pc = "step3ret"
    /\ FlatRun
    /\ scroll_i < max_scrolls
    /\ \E k \in 2..Len(probes) : ~FlatProbe(k)

(***************************************************************************)
(* Properties of save_image.                                               *)
(***************************************************************************)
\* C2: a call whose URL no earlier call stored, and whose write succeeds,
\* returns True; every later call with that URL is refused as a duplicate
\* and returns False; no two stored records share a URL.
C2_StoredOnce ==
    /\ \A j \in 1..Len(calls) :
          (/\ calls[j].write = "ok"
           /\ \A i \in 1..(j - 1) :
                  calls[i].url = calls[j].url => calls[i].write # "ok")
          => (calls[j].ret /\ ~calls[j].dup)
    /\ \A i, j \in 1..Len(calls) :
          (i < j /\ calls[i].url = calls[j].url /\ calls[i].ret)
          => (calls[j].dup /\ ~calls[j].ret)
    /\ \A r1, r2 \in records : r1.url = r2.url => r1 = r2
    /\ downloaded_count = Cardinality(downloaded_urls)

\* a URL is stored, then offered again under another ordinal and refused
C2_Witness ==
    \E i, j \in 1..Len(calls) :
        /\ i < j
        /\ calls[i].url = calls[j].url
        /\ calls[i].ordinal # calls[j].ordinal
        /\ calls[i].ret
        /\ calls[j].dup
        /\ calls[j].write = "ok"
\* C10: the file name save_image derives is the same at every call with the
\* same URL and ordinal, whatever the store holds by then and whether or
\* not the write succeeds.
C10_NameFromUrlAndOrdinal ==
    \A i, j \in 1..Len(calls) :
        (/\ calls[i].url = calls[j].url
         /\ calls[i].ordinal = calls[j].ordinal
         /\ ~calls[i].dup
         /\ ~calls[j].dup)
        => calls[i].name = calls[j].name

\* the same URL and ordinal named twice, another URL stored in between
C10_Witness ==
    \E i, j, k \in 1..Len(calls) :
        /\ i < k /\ k < j
        /\ calls[i].url = calls[j].url
        /\ calls[i].ordinal = calls[j].ordinal
        /\ ~calls[i].dup
        /\ ~calls[j].dup
        /\ calls[k].ret
        /\ calls[i].name # None

(***************************************************************************)
(* Properties of the run.                                                  *)
(***************************************************************************)
\* the image the ordinal falls back on, and the one candidates are (local)
\* or would be (cli) measured against
HasFallbackImage == preview_url # None /\ preview_data # None
ReferenceData == IF variant = "cli" THEN preview_data ELSE thumbnail_data
StoredFor(k) == {r \in records : r.ordinal = k}

\* C3: when the hi-fidelity step has written a file and some candidate is
\* within the threshold of the reference, the URL stored for the ordinal
\* is a candidate of least distance.
C3_ResolvedIsClosest ==
    (pc = "closewin" /\ low # {} /\ lastWrite = "ok")
    => \E r \in StoredFor(index) : r.url \in low

\* C4: when step5_to_10 has returned under the height-check variant, the
\* main window is the only one open and has the focus.
C4_OnlyMainOpen ==
    (variant = "cli" /\ pc = "loop" /\ lastRet # "none")
    => (windows = {MainWindow} /\ focus = MainWindow)

C6_QuitOnce ==
    /\ quitCount <= 1
    /\ ~opAfterQuit
    /\ driver = "quit" <=> quitCount = 1
    /\ (pc = "done" /\ (windows # {} \/ total > 0 \/ escaped))
          => (driver # "live")
    /\ pc = "done" => (driver # "live" /\ windows = {})
    /\ (pc \notin {"setup", "finally", "done"}) => driver = "live"

\* a run that an exception ended after the session was created
C6_Witness ==
    /\ pc = "done"
    /\ escaped
    /\ driver = "quit"
    /\ quitCount = 1

\* C7: no failure inside an ordinal ends the loop: the ordinals tried so far
\* are 1..index-1 while the loop runs, and 1..total once it is over.
PipelinePcs ==
    {"loop", "reacquire", "thumbref", "click", "preview", "dlclick", "switch",
     "hifi", "closewin", "innerexc", "fallback", "esc", "outerexc"}
C7_EveryOrdinalTried ==
    /\ lastRet # "raised"
    /\ pc \in PipelinePcs => ~escaped
    /\ pc = "loop" => attempted = 1..(index - 1)
    /\ (pc \in PipelinePcs \ {"loop"}) => attempted = 1..index
    /\ (pc \in {"finally", "done"} /\ total > 0) => attempted = 1..total
    /\ failed \subseteq attempted

\* an ordinal failed through the outer handler and the next one is under way
C7_Witness ==
    /\ pc = "click"
    /\ index > 1
    /\ (index - 1) \in failed
    /\ index \in attempted

C9_DistinctNames ==
    /\ \A r1, r2 \in records : r1.name = r2.name => r1 = r2
    /\ \A r1, r2 \in records : r1.ordinal = r2.ordinal => r1 = r2
    /\ Cardinality(files) = Cardinality(records)

\* two URLs of the same extension are stored, under different ordinals
C9_Witness ==
    \E r1, r2 \in records :
        /\ r1.url # r2.url
        /\ Extension(r1.url) = Extension(r2.url)
        /\ r1.name # r2.name

(***************************************************************************)
(* Properties of the files written.                                        *)
(***************************************************************************)
\* the number written in decimal by the digits ds, most significant first
RECURSIVE DecimalValue(_)
DecimalValue(ds) ==
    IF ds = <<>> THEN 0
    ELSE 10 * DecimalValue(SubSeq(ds, 1, Len(ds) - 1)) + ds[Len(ds)]

C12_DuplicateChangesNothing ==
    [][(calls' # calls /\ calls'[Len(calls')].dup)
        => UNCHANGED <<downloaded_urls, downloaded_count, files, records>>]_vars

\* a duplicate has just been refused whose file name is not on disk
C12_Witness ==
    /\ calls # <<>>
    /\ calls[Len(calls)].dup
    /\ calls[Len(calls)].write = "ok"
    /\ FileName(calls[Len(calls)].url, calls[Len(calls)].ordinal) \notin files
    /\ downloaded_count = 1

(***************************************************************************)
(* Properties of a second call for the same ordinal.                       *)
(***************************************************************************)
\* the second call met what the first one met: the same thumbnail and
\* preview, the same selection in the new window, no failed write
SameTree ==
    /\ prev.again
    /\ preview_url = prev.preview_url
    /\ preview_data = prev.preview_data
    /\ thumbnail_url = prev.thumbnail_url
    /\ thumbnail_data = prev.thumbnail_data
    /\ Selection(took) = prev.took
    /\ ~prev.wfail
    /\ lastWrite # "fails"

\* C13: a second call for the same ordinal that meets the same tree ends in
\* the tier the first call ended in.
C13_SameTierAgain ==
    (pc = "esc" /\ SameTree) => tier = prev.tier

(***************************************************************************)
(* Properties of the element handle.                                       *)
(***************************************************************************)
\* C14: the handle about to be scrolled to and clicked for an ordinal was
\* found by a query of the page made in this call for this ordinal.
C14_FreshHandle ==
    pc = "click" => (acq.done /\ acq.found /\ ~acq.fault)

(***************************************************************************)
(* Properties of download_image_data.                                      *)
(***************************************************************************)
\* C15: whatever the URL and whatever the network does, no exception leaves
\* download_image_data, and what it returns is the bytes of the response or
\* None: the bytes for a response below 400, None for every failure.
C15_FetchNeverRaises ==
    \A k \in 1..Len(fetches) :
        /\ ~fetches[k].raised
        /\ fetches[k].value \in {None, fetches[k].url}
        /\ fetches[k].value # None <=> fetches[k].net \in {"ok", "redirect"}

\* a request that raised and a response with an error status, both None
C15_Witness ==
    \E i, j \in 1..Len(fetches) :
        /\ fetches[i].net = "connection_error"
        /\ fetches[j].net = "not_found"
        /\ fetches[i].value = None
        /\ fetches[j].value = None

(***************************************************************************)
(* Properties of an ordinal that finds no image.                           *)
(***************************************************************************)
\* the hi-fidelity step selected no candidate, and there is no preview and
\* no thumbnail image with bytes to fall back on
NoImageAtAll ==
    /\ took.sel = None
    /\ ~HasFallbackImage
    /\ thumbnail_url = None \/ thumbnail_data = None

SummaryPrinted == pc \in {"finally", "done"} /\ total > 0

C18_AtMostTwoWindows == Cardinality(windows) <= 2

(***************************************************************************)
(* Failures that end the run.                                              *)
(***************************************************************************)
\* C19: a run that ends before every ordinal was attempted ended on a
\* failure of the session; such a failure is caught inside scrape(), the
\* session is torn down, and no exception leaves scrape().
C19_CaughtAtBoundary ==
    pc = "done" => (~escaped /\ driver # "live")

(***************************************************************************)
(* What becomes of the reference image.                                    *)
(***************************************************************************)
\* the URLs of the reference images of the ordinal at hand
ReferenceUrls == {preview_url, thumbnail_url} \ {None}

\* C20 as stated: no record stored for the ordinal has the URL of one of
\* its reference images (a candidate the hi-fidelity step selected, which
\* happens to have that URL, set aside).
C20_ReferenceNeverStored ==
    pc = "esc" =>
        \A r \in StoredFor(index) :
            r.url \in ReferenceUrls => r.url = took.sel

\* C20, amended: a reference image is written by the fallback step only,
\* and only when the hi-fidelity step stored nothing: the one record of the
\* ordinal is either the selected candidate, tier Resolved, or the preview
\* (second variant: else the thumbnail), tier FallbackUsed.
C20_OnlyFallbackStoresReference ==
    pc = "esc" =>
        /\ Cardinality(StoredFor(index)) <= 1
        /\ \A r \in StoredFor(index) :
              \/ /\ tier = "Resolved"
                 /\ took.done
                 /\ r.url = took.sel
              \/ /\ tier = "FallbackUsed"
                 /\ r.url \in ReferenceUrls
                 /\ r.url = preview_url \/ variant = "local"

\* the hi-fidelity step selected a candidate and stored nothing, and the
\* fallback stored the preview image, which has another URL
C20_Witness ==
    /\ pc = "esc"
    /\ tier = "FallbackUsed"
    /\ took.done
    /\ took.sel # None
    /\ \E r \in StoredFor(index) : r.url = preview_url /\ r.url # took.sel

(***************************************************************************)
(* Selection without a reference image.                                    *)
(***************************************************************************)
\* C21: when the ordinal has no reference image and the new window shows
\* several candidates, the first of which can be fetched and read, the first
\* candidate in enumeration order is the one selected, and when its file is
\* written the tier is Resolved.
C21_FirstFoundSelected ==
    (pc = "closewin" /\ ReferenceData = None /\ took.several)
    => (/\ took.isFirst
        /\ lastWrite = "ok" => tier = "Resolved")

(***************************************************************************)
(* Dismissal of the detail view.                                           *)
(***************************************************************************)
\* C22: when a call that opened the detail view has returned, an ESC was
\* attempted, on the ordinary path and in the exception handler alike; the
\* call returned True from step 8 and False from the handler whether the
\* ESC failed or not, and the step that sends it stores nothing.
C22_EscBeforeNext ==
    /\ []((pc = "loop" /\ view.opened) =>
            /\ view.esc \in {"sent", "failed"}
            /\ view.at \in {"step8", "except"}
            /\ lastRet = (IF view.at = "step8" THEN "True" ELSE "False"))
    /\ [][(pc \in {"esc", "outerexc"}) =>
            (/\ records' = records
             /\ files' = files
             /\ downloaded_count' = downloaded_count
             /\ downloaded_urls' = downloaded_urls)]_vars

\* the ESC of step 8 failed after an image had been stored for the ordinal
C22_Witness ==
    /\ pc = "loop"
    /\ view.opened
    /\ view.esc = "failed"
    /\ view.at = "step8"
    /\ lastRet = "True"
    /\ StoredFor(index - 1) # {}

(***************************************************************************)
(* The scroll loop, step by step.                                          *)
(***************************************************************************)
\* the height-check loop is running or has just ended
InHeightLoop == variant = "cli" /\ pc \in {"scroll", "step3ret"}

\* an iteration of the height-check loop has run to its end
HeightIteration ==
    /\ variant = "cli"
    /\ pc = "scroll"
    /\ scroll_i' = scroll_i + 1

\* C23: an iteration whose reading is greater than the stored height
\* stores the reading and sets the counter to 0; any other iteration leaves
\* the stored height alone and adds exactly 1 to the counter.  So the
\* stored height is the greatest reading so far and the counter is within
\* 0..3.
C23_ExtentAndPatience ==
    /\ [][HeightIteration =>
            LET h == probes'[Len(probes')]
            IN IF h > last_height
               THEN last_height' = h /\ no_change_count' = 0
               ELSE /\ last_height' = last_height
                    /\ no_change_count' = no_change_count + 1]_vars
    /\ [](InHeightLoop =>
            /\ last_height = Max({probes[k] : k \in 1..Len(probes)})
            /\ no_change_count \in 0..Patience)

\* the height grew, then two readings in a row did not grow
C23_Witness ==
    /\ InHeightLoop
    /\ pc = "scroll"
    /\ no_change_count = 2
    /\ last_height > probes[1]
    /\ Len(probes) >= 4

\* the reading of iteration j (probes[1] is the reading before the loop)
Reading(j) == probes[j + 1]

\* the height grew in each of the first g iterations and in none after them
GrewExactlyFirst(g) ==
    /\ g \in 0..scroll_i
    /\ \A j \in 1..g : ~FlatProbe(j + 1)
    /\ \A j \in (g + 1)..scroll_i : FlatProbe(j + 1)

\* C24: the height-check loop ends with iterations to spare only when the
\* three latest readings all failed to grow; an iteration whose reading
\* grows never ends it, whatever came before; and when the height grew in
\* exactly the first g iterations, with g + 3 <= max_scrolls, the loop runs
\* on until iteration g + 3 and ends there.
C24_ThreeFlatStop ==
    /\ []((InHeightLoop /\ pc = "step3ret" /\ scroll_i < max_scrolls) =>
            /\ scroll_i >= Patience
            /\ \A j \in (scroll_i - Patience + 1)..scroll_i : FlatProbe(j + 1))
    /\ [][(HeightIteration /\ probes'[Len(probes')] > last_height)
            => pc' = "scroll"]_vars
    /\ [](InHeightLoop =>
            \A g \in 0..MaxScrolls :
                (GrewExactlyFirst(g) /\ g + Patience <= max_scrolls) =>
                    /\ scroll_i <= g + Patience
                    /\ pc = "step3ret" <=> scroll_i = g + Patience)

\* two growing iterations, then three flat ones: the loop ends at the fifth
C24_Witness ==
    /\ InHeightLoop
    /\ pc = "step3ret"
    /\ GrewExactlyFirst(2)
    /\ scroll_i = 2 + Patience
    /\ scroll_i <= max_scrolls

(***************************************************************************)
(* The index of the run and its re-acquisition, on one tree.               *)
(***************************************************************************)
\* step4_get_thumbnails is over
IndexBuilt == pc \in {"reacq", "finally"}

\* C25: step4_get_thumbnails does not raise; the list it returns is that of
\* the first selector matching at least 6 elements, and when no selector
\* matches that many the list is empty: a list of 1 to 5 elements is never
\* returned as the grid.
C25_PlausibleGridNoRaise ==
    IndexBuilt =>
        /\ ~escaped
        /\ total = 0 \/ total >= MinPlausible + 1
        /\ \A s \in Selectors :
              (/\ tree.c[s] >= MinPlausible + 1
               /\ \A t \in 1..(s - 1) : tree.c[t] < MinPlausible + 1)
              => total = tree.c[s]

\* C26: on a tree that has not changed, every ordinal of the index is
\* found again, without an index fault, and in the list of the selector
\* whose list step4_get_thumbnails returned.
C26_SameListAgain ==
    (pc = "reacq" /\ acq.done) =>
        /\ acq.found
        /\ ~acq.fault
        /\ AcquireSelector(tree.c, index - 1) = Step4Selector(tree.c)

(***************************************************************************)
(* The spelling of the URL: extension and duplicates.                      *)
(***************************************************************************)
\* C27: the extension of the file name is the extension of the URL's path
\* when that is one of .jpg, .png, .jpeg, .webp, and .jpg in every other
\* case.
C27_RecognisedExtension ==
    \A k \in 1..Len(calls) :
        calls[k].name # None =>
            LET suffix == PathSuffix(UrlPath(calls[k].url))
                ext == SubSeq(calls[k].name, PadWidth + 2, Len(calls[k].name))
            IN ext = (IF suffix \in {<<".", "jpg">>, <<".", "png">>,
                                     <<".", "jpeg">>, <<".", "webp">>}
                      THEN suffix ELSE <<".", "jpg">>)

\* C28: a call is refused as a duplicate exactly when an earlier call of the
\* run stored the very same URL; a URL that differs from every stored URL,
\* be it only in the case of a letter, is not refused.
C28_ExactMatchOnly ==
    \A k \in 1..Len(calls) :
        /\ calls[k].dup <=>
              \E j \in 1..(k - 1) : calls[j].ret /\ calls[j].url = calls[k].url
        /\ (\A j \in 1..(k - 1) : calls[j].ret => calls[j].url # calls[k].url)
              => (calls[k].ret <=> calls[k].write = "ok")

\* a URL is stored, then the same URL with one letter in the other case is
\* stored as well
C28_Witness ==
    /\ Len(calls) = 2
    /\ calls[1].url = UrlJpg /\ calls[1].ret
    /\ calls[2].url = UrlUpper /\ calls[2].ret /\ ~calls[2].dup

(***************************************************************************)
(* An ordinal that is not found again.                                     *)
(***************************************************************************)
\* C29: the step in which re-acquisition finds no element for the ordinal
\* ends the call: it returns False with the store, the files, the windows
\* and the focus as they were; and a call that ended so has opened no
\* detail view, made no save_image call and stored nothing.
C29_NotFoundEndsOrdinal ==
    /\ [][(pc = "reacquire" /\ acq'.done /\ ~acq'.found) =>
            (/\ pc' = "loop"
             /\ lastRet' = "False"
             /\ index' = index + 1
             /\ storeVars' = storeVars
             /\ windows' = windows
             /\ focus' = focus
             /\ view' = view)]_vars
    /\ []((pc = "loop" /\ acq.done /\ ~acq.found) =>
            /\ ~view.opened
            /\ view.esc = "none"
            /\ lastWrite = "none"
            /\ StoredFor(index - 1) = {})

\* the first ordinal stored an image, the second is not found again
C29_Witness ==
    /\ pc = "loop"
    /\ index = 3
    /\ acq.done
    /\ ~acq.found
    /\ StoredFor(1) # {}
    /\ windows = {MainWindow}

(***************************************************************************)
(* The click that opens the detail view.                                   *)
(***************************************************************************)
\* C30: when the direct click has failed the scripted click was made; when
\* the direct click succeeded it was not.  A scripted click that succeeds
\* opens the detail view and the call goes on; when it fails too the call
\* goes to its handler and returns False with nothing stored for the
\* ordinal, and the loop of scrape() goes on with the next ordinal.
C30_ScriptedRetry ==
    /\ view.direct = "failed" => view.scripted \in {"ok", "failed"}
    /\ view.direct = "ok" =>
          (view.scripted = "none" /\ view.opened /\ pc = "preview")
    /\ view.scripted = "ok" => (view.opened /\ pc = "preview")
    /\ view.scripted = "failed" =>
          /\ ~view.opened
          /\ ~escaped
          /\ pc \in {"outerexc", "loop", "finally", "done"}
          /\ pc # "outerexc" =>
                (lastRet = "False" /\ StoredFor(index - 1) = {})

\* both clicks failed at the first ordinal; the second ordinal is next
C30_Witness ==
    /\ view.direct = "failed"
    /\ view.scripted = "failed"
    /\ pc = "loop"
    /\ index = 2
    /\ index <= total
    /\ lastRet = "False"

(***************************************************************************)
(* The ordinals of a run.                                                  *)
(***************************************************************************)
\* C31: the number of ordinals is set by step4_get_thumbnails and by no
\* later step; the loop of scrape() starts a call only for the ordinal that
\* follows the ones already processed, never for one processed before, the
\* ordinal under way moves by one at the end of a call and not otherwise,
\* and the loop ends when the ordinals 1..N have all been processed.
C31_OrdinalsFixedInOrder ==
    /\ [][total' # total => pc = "step4"]_vars
    /\ [][(pc = "loop" /\ pc' \notin {"loop", "finally"}) =>
            (/\ index \in 1..total
             /\ attempted = 1..(index - 1)
             /\ attempted' = 1..index
             /\ index' = index)]_vars
    /\ [][(pc \in PipelinePcs /\ index' # index) =>
            (pc' = "loop" /\ index' = index + 1)]_vars
    /\ [][(pc = "loop" /\ pc' = "finally") =>
            (index = total + 1 /\ attempted = 1..total)]_vars

\* two ordinals, neither found again, and the loop is over
C31_Witness ==
    /\ pc = "finally"
    /\ total = 2
    /\ index = 3
    /\ attempted = {1, 2}
    /\ failed = {1, 2}

(***************************************************************************)
(* The stages of scrape().                                                 *)
(***************************************************************************)
\* the position of a program point in the body of scrape(): session set-up,
\* query submission, the click on the similar images, pagination, index
\* build, the loop over the ordinals, the finally clause, the return
StageOf(p) ==
    CASE p = "setup" -> 0
      [] p = "step1" -> 1
      [] p = "step2" -> 2
      [] p \in {"step3", "scroll", "step3ret"} -> 3
      [] p = "step4" -> 4
      [] p \in PipelinePcs -> 5
      [] p = "finally" -> 6
      [] OTHER -> 7

\* C32: a run goes through query submission, pagination, index build, the
\* loop over the ordinals and the summary in this order, each stage entered
\* from the one before it or left for the finally clause; when the query
\* submission fails or the index is empty the run goes to the finally clause
\* with no ordinal processed, nothing stored and no summary, and the session
\* is shut down all the same.
C32_StagesInOrder ==
    /\ [][(StageOf(pc') # StageOf(pc)) =>
            (\/ StageOf(pc') = StageOf(pc) + 1
             \/ pc' = "finally")]_vars
    /\ [][(pc \in {"step1", "step4"} /\ pc' = "finally") =>
            (/\ total' = 0
             /\ attempted' = {} /\ failed' = {}
             /\ records' = {} /\ files' = {}
             /\ downloaded_urls' = {} /\ downloaded_count' = 0
             /\ driver' = "live")]_vars
    /\ [][(pc = "loop" /\ pc' = "finally") => total >= 1]_vars
    /\ []((pc \in PipelinePcs) => total >= 1)
    /\ []((pc = "done" /\ total = 0) =>
            (/\ attempted = {} /\ records = {} /\ files = {}
             /\ downloaded_count = 0
             /\ driver # "live"
             /\ (~escaped => (driver = "quit" /\ quitCount = 1))))
\* the query submission failed before pagination began, and the session
\* was shut down
C32_Witness ==
    /\ pc = "done" /\ ~escaped /\ total = 0
    /\ max_scrolls >= 1
    /\ driver = "quit" /\ quitCount = 1 /\ windows = {}
    /\ attempted = {} /\ files = {}

(***************************************************************************)
(* The counters of the store.                                              *)
(***************************************************************************)
\* the save_image calls made so far that returned True
ReturnedTrue == {j \in 1..Len(calls) : calls[j].ret}

\* C33: at every moment downloaded_count is the number of URLs in
\* downloaded_urls, and both are the number of save_image calls that have
\* returned True; the URLs held are those of these calls.
C33_CountIsTrueReturns ==
    /\ downloaded_count = Cardinality(ReturnedTrue)
    /\ Cardinality(downloaded_urls) = Cardinality(ReturnedTrue)
    /\ downloaded_urls = {calls[j].url : j \in ReturnedTrue}
\* three calls: one stored, one refused as a duplicate, one whose write
\* failed
C33_Witness ==
    /\ Len(calls) = MaxCalls
    /\ Cardinality(ReturnedTrue) = 1
    /\ downloaded_count = 1
    /\ \E j \in 1..Len(calls) : calls[j].dup
    /\ \E j \in 1..Len(calls) : ~calls[j].dup /\ calls[j].write = "fails"

\* C34: a save_image call whose write fails returns False and leaves the
\* seen set, the count and the records as they were; the same URL offered
\* again before any call has stored it is not refused as a duplicate, and is
\* stored when its write succeeds.
C34_FailedWriteLeavesNoTrace ==
    /\ [][(/\ calls' # calls
           /\ ~calls'[Len(calls')].dup
           /\ calls'[Len(calls')].write = "fails") =>
            (/\ ~calls'[Len(calls')].ret
             /\ UNCHANGED <<downloaded_urls, downloaded_count, files,
                            records>>)]_vars
    /\ [](\A i, j \in 1..Len(calls) :
            (/\ i < j
             /\ calls[i].url = calls[j].url
             /\ calls[i].write = "fails"
             /\ \A k \in 1..(j - 1) : calls[k].url = calls[j].url => ~calls[k].ret)
            => (/\ ~calls[j].dup
                /\ calls[j].write = "ok" => calls[j].ret))
\* a write failed, and the same URL was stored by the next call
C34_Witness ==
    \E i \in 1..(Len(calls) - 1) :
        /\ calls[i].write = "fails" /\ ~calls[i].dup /\ ~calls[i].ret
        /\ calls[i + 1].url = calls[i].url
        /\ calls[i + 1].write = "ok" /\ calls[i + 1].ret
        /\ calls[i].url \in downloaded_urls
        /\ downloaded_count = 1

(***************************************************************************)
(* One image per ordinal.                                                  *)
(***************************************************************************)
\* C35: at most one save_image call succeeds while an ordinal is processed:
\* the fallback step changes nothing in the store once the hi-fidelity step
\* has stored an image, each step adds at most one record, and no ordinal
\* ever has two records or two files.
C35_OneStoredPerOrdinal ==
    /\ [][(pc = "fallback" /\ success) =>
            UNCHANGED <<downloaded_urls, downloaded_count, files, records,
                        success, tier>>]_vars
    /\ [][Cardinality(records') <= Cardinality(records) + 1]_vars
    /\ [](\A k \in attempted :
            /\ Cardinality(StoredFor(k)) <= 1
            /\ Cardinality({r.name : r \in StoredFor(k)}) <= 1)
    /\ [](/\ downloaded_count <= Cardinality(attempted)
          /\ Cardinality(files) <= Cardinality(attempted))
\* the hi-fidelity step stored its candidate, and the preview image, fetched
\* and not yet in the store, was left alone by the fallback step
C35_Witness ==
    /\ pc = "esc"
    /\ variant = "cli"
    /\ tier = "Resolved" /\ success
    /\ preview_data # None /\ preview_url # None
    /\ preview_url \notin downloaded_urls
    /\ Cardinality(StoredFor(index)) = 1

(***************************************************************************)
(* The main window during the loop.                                        *)
(***************************************************************************)
\* C36: while the ordinals are processed the main window stays open: every
\* step that closes a window, the recovery paths included, is taken with the
\* focus on another window than the main one and leaves the main one open.
C36_MainStaysOpen ==
    /\ [][(pc \in PipelinePcs /\ windows' # windows /\ windows' \subseteq windows)
            => (focus # MainWindow /\ MainWindow \in windows')]_vars
    /\ []((pc \in PipelinePcs /\ driver = "live") => MainWindow \in windows)

(***************************************************************************)
(* The 'Show more' loop of the second variant.                             *)
(***************************************************************************)
\* the 'Show more' loop is running or has just returned
InShowMoreLoop == variant = "local" /\ pc \in {"scroll", "step3ret"}

\* C37: the loop of yandex_scraper_local.py has no patience rule.  An
\* iteration ends the loop exactly when its look for the control finds it
\* displayed; otherwise the loop goes on, however many iterations have
\* passed without anything new, until max_scrolls triggers have been made.
\* No page height is read and no counter of flat iterations is kept.
C37_ShowMoreOrBudget ==
    /\ [][(variant = "local" /\ pc = "scroll" /\ scroll_i' = scroll_i + 1) =>
            (/\ scroll_i < max_scrolls
             /\ Len(probes') = scroll_i'
             /\ pc' = "step3ret" <=> probes'[Len(probes')] = 1)]_vars
    /\ [][(variant = "local" /\ pc = "scroll" /\ pc' = "step3ret"
           /\ scroll_i' = scroll_i) => scroll_i = max_scrolls]_vars
    /\ [](InShowMoreLoop =>
            /\ Len(probes) = scroll_i
            /\ scroll_i <= max_scrolls
            /\ \A j \in 1..(scroll_i - 1) : probes[j] = 0
            /\ (pc = "scroll" /\ scroll_i >= 1) => probes[scroll_i] = 0
            /\ pc = "step3ret" =>
                  \/ scroll_i = max_scrolls
                  \/ probes[scroll_i] = 1
            /\ last_height = 0
            /\ no_change_count = 0)
\* more iterations than the patience of the first variant went by without
\* the control, and the loop stopped only when the budget was used up
C37_Witness ==
    /\ InShowMoreLoop
    /\ pc = "step3ret"
    /\ max_scrolls > Patience
    /\ scroll_i = max_scrolls
    /\ \A j \in 1..scroll_i : probes[j] = 0

(***************************************************************************)
(* The GUI front end of yandex_image_scraper-v2.py: the Tk main loop, the  *)
(* start button, and the worker threads that run_scraper runs in.  Here pc *)
(* is the position of the main thread: "mainloop" between two events,      *)
(* "start_thread" inside the command of the button.  A worker is at "try", *)
(* at "finally", or has "ended".                                           *)
(***************************************************************************)
\* runs started in one session of the window
MaxRuns == 3

\* a ttk.Button invokes its command unless its state is "disabled"
ButtonAcceptsAlways(state) == TRUE
ButtonAccepts(state) == state # "disabled"

\* the workers that have not left run_scraper
Running == {w \in 1..Len(workers) : workers[w].pc # "ended"}

GuiInit ==
    /\ variant = "cli"
    /\ GuiIdle
    /\ ScoreIdle
    /\ pc = "mainloop"
    /\ driver = "none"
    /\ quitCount = 0
    /\ opAfterQuit = FALSE
    /\ escaped = FALSE
    /\ max_scrolls = 0
    /\ scroll_i = 0
    /\ last_height = 0
    /\ no_change_count = 0
    /\ probes = <<>>
    /\ total = 0
    /\ index = 0
    /\ attempted = {}
    /\ failed = {}
    /\ lastRet = "none"
    /\ windows = {}
    /\ focus = NoFocus
    /\ downloaded_urls = {}
    /\ downloaded_count = 0
    /\ files = {}
    /\ records = {}
    /\ calls = <<>>
    /\ lastWrite = "none"
    /\ tier = "none"
    /\ thumbnail_url = None
    /\ thumbnail_data = None
    /\ preview_url = None
    /\ preview_data = None
    /\ success = FALSE
    /\ acq = NoAcq
    /\ low = {}
    /\ reprocess = FALSE
    /\ took = NoTook
    /\ view = NoView
    /\ tree = NoTree
    /\ prev = NoPrev
    /\ fetches = <<>>

\* what the GUI specification leaves alone: the state of the pipeline
pipelineVars ==
    <<variant, scoreVars, sessionVars, opAfterQuit, escaped, scrollVars, loopVars,
      storeVars, localVars>>

\* the button is pressed: start_thread validates the image path and, when it
\* is a file, disables the button and sets the status
StartClick ==
    /\ pc = "mainloop"
    /\ ButtonAccepts(start_btn)
    /\ Len(workers) < MaxRuns
    /\ \E valid \in BOOLEAN :
          IF valid
          THEN /\ start_btn' = "disabled"
               /\ status_label' = "Running"
               /\ pc' = "start_thread"
          ELSE UNCHANGED <<start_btn, status_label, pc>>
    /\ UNCHANGED <<workers, after_calls, pipelineVars>>

\* threading.Thread(target=self.run_scraper, daemon=True).start()
StartThread ==
    /\ pc = "start_thread"
    /\ workers' = Append(workers, [pc |-> "try", outcome |-> "none"])
    /\ pc' = "mainloop"
    /\ UNCHANGED <<start_btn, status_label, after_calls, pipelineVars>>

\* the try block of run_scraper comes to its end, or an exception is caught:
\* a message box and a status text are queued for the main loop
WorkerTry ==
    \E w \in 1..Len(workers), o \in {"ok", "raised"} :
        /\ workers[w].pc = "try"
        /\ workers' = [workers EXCEPT ![w] = [pc |-> "finally", outcome |-> o]]
        /\ after_calls' = after_calls \o
              (IF o = "ok" THEN <<"showinfo", "Completed Successfully">>
               ELSE <<"showerror", "Error occurred">>)
        /\ UNCHANGED <<start_btn, status_label, pc, pipelineVars>>

\* finally: the re-enabling of the button is queued, run_scraper returns
WorkerFinally ==
    \E w \in 1..Len(workers) :
        /\ workers[w].pc = "finally"
        /\ workers' = [workers EXCEPT ![w].pc = "ended"]
        /\ after_calls' = Append(after_calls, "normal")
        /\ UNCHANGED <<start_btn, status_label, pc, pipelineVars>>

\* the main loop runs the oldest callback queued with root.after
AfterCallback ==
    /\ pc = "mainloop"
    /\ after_calls # <<>>
    /\ after_calls' = Tail(after_calls)
    /\ start_btn' = IF Head(after_calls) = "normal" THEN "normal" ELSE start_btn
    /\ status_label' =
          IF Head(after_calls) \in {"Completed Successfully", "Error occurred"}
          THEN Head(after_calls) ELSE status_label
    /\ UNCHANGED <<workers, pc, pipelineVars>>

GuiNext ==
    \/ StartClick
    \/ StartThread
    \/ WorkerTry
    \/ WorkerFinally
    \/ AfterCallback

SpecGui == GuiInit /\ [][GuiNext]_vars

\* C38: at most one worker is inside run_scraper at any time.  A worker is
\* started only with the button disabled; the button goes back to normal
\* only when every worker started has left run_scraper, by its normal end
\* or by an exception; so while the button can be pressed no run is in
\* progress.
C38_OneWorkerAtATime ==
    /\ [](Cardinality(Running) <= 1)
    /\ []((start_btn = "normal" \/ pc = "start_thread") => Running = {})
    /\ [][(Len(workers') > Len(workers)) =>
            (/\ start_btn = "disabled" /\ start_btn' = "disabled"
             /\ Running = {})]_vars
    /\ [][(start_btn = "disabled" /\ start_btn' = "normal") =>
            (/\ workers # <<>>
             /\ workers[Len(workers)].pc = "ended"
             /\ workers[Len(workers)].outcome \in {"ok", "raised"}
             /\ Running = {})]_vars
\* a run ended by an exception, the button was enabled again, and a second
\* worker is running with the button disabled
C38_Witness ==
    /\ Len(workers) = 2
    /\ workers[1] = [pc |-> "ended", outcome |-> "raised"]
    /\ workers[2].pc = "try"
    /\ start_btn = "disabled"

(***************************************************************************)
(* The similarity scoring of yandex_scraper_local.py, alone: the loop over *)
(* candidate_urls that keeps best_match_url, with a thumbnail to compare   *)
(* with.                                                                   *)
(***************************************************************************)
\* candidates of one scoring
MaxScored == 3

\* URLs that pass the extension filter of the candidate collection
ScorePool == {u \in {UrlJpg, UrlPng, UrlJpg2, UrlUpper} : LooksLikeImage(u)}

ScoreInit ==
    /\ variant = "local"
    /\ GuiIdle
    /\ pc = "score"
    /\ candidate_urls \in
          {q \in UNION {[1..n -> ScorePool] : n \in 0..MaxScored} :
              \A a, b \in 1..Len(q) : a # b => q[a] # q[b]}
    /\ scores \in [1..Len(candidate_urls) -> Measures \cup Unmeasured]
    /\ best_match_url = None
    /\ thumbnail_url = UrlJpg
    /\ thumbnail_data = UrlJpg
    /\ driver = "live"
    /\ windows = {MainWindow, 1}
    /\ focus = 1
    /\ quitCount = 0
    /\ opAfterQuit = FALSE
    /\ escaped = FALSE
    /\ max_scrolls = 0
    /\ scroll_i = 0
    /\ last_height = 0
    /\ no_change_count = 0
    /\ probes = <<>>
    /\ total = 1
    /\ index = 1
    /\ attempted = {1}
    /\ failed = {}
    /\ lastRet = "none"
    /\ downloaded_urls = {}
    /\ downloaded_count = 0
    /\ files = {}
    /\ records = {}
    /\ calls = <<>>
    /\ lastWrite = "none"
    /\ tier = "none"
    /\ preview_url = None
    /\ preview_data = None
    /\ success = FALSE
    /\ acq = NoAcq
    /\ low = {}
    /\ reprocess = FALSE
    /\ took = NoTook
    /\ view = NoView
    /\ tree = NoTree
    /\ prev = NoPrev
    /\ fetches = <<>>

\* the loop over candidate_urls and the test of the threshold
ScoreCall ==
    /\ pc = "score"
    /\ pc' = "scored"
    /\ best_match_url' = SelectLocal(candidate_urls, scores, thumbnail_data)
    /\ UNCHANGED <<variant, guiVars, candidate_urls, scores, sessionVars,
                   opAfterQuit, escaped, scrollVars, loopVars, storeVars,
                   localVars>>

ScoreNext == ScoreCall

SpecScore == ScoreInit /\ [][ScoreNext]_vars

\* the candidates that were fetched and hashed
Scored == {k \in 1..Len(candidate_urls) : scores[k] \in Measures}

\* C39: the candidate chosen by the scoring was fetched and hashed, its
\* distance is the least of all distances and is within the threshold, and
\* every candidate enumerated before it has a greater distance: of several
\* candidates at the least distance the first is chosen.  A candidate is
\* chosen whenever one was hashed within the threshold.
C39_FirstOfTheClosest ==
    pc = "scored" =>
        /\ best_match_url # None =>
              \E k \in Scored :
                  /\ candidate_urls[k] = best_match_url
                  /\ scores[k] <= Threshold
                  /\ \A j \in Scored : scores[k] <= scores[j]
                  /\ \A j \in Scored : j < k => scores[j] > scores[k]
        /\ \A k \in 1..Len(candidate_urls) :
              scores[k] \in Unmeasured => candidate_urls[k] # best_match_url
        /\ (\E k \in Scored : scores[k] <= Threshold) => best_match_url # None
\* the first candidate could not be fetched, the second and the third are
\* at the same distance: the second is chosen
C39_Witness ==
    /\ pc = "scored"
    /\ Len(candidate_urls) >= 3
    /\ scores[1] = NoFetch
    /\ scores[2] = scores[3]
    /\ scores[2] \in Measures
    /\ best_match_url = candidate_urls[2]

====
